---------------------------- MODULE Spec2Model ----------------------------
(***************************************************************************)
(* Model of the query-execution pipeline of the Talk-to-Data backend:      *)
(*   - QueryExecutor (services/query_executor.py): the per-session pool of *)
(*     DuckDB connections with idle cleanup and oldest-first eviction;     *)
(*   - LLMAgent._clean_sql / validate_sql_query (agents/llm_agent.py): the *)
(*     SQL safety validator built on the sqlparse tokenizer;               *)
(*   - the /query handler (main.py): generate, execute, refine once;       *)
(*   - the tables of the execution contexts (SpecTables) and calls of      *)
(*     register_dataframe from concurrent threads (SpecThreads).           *)
(***************************************************************************)
EXTENDS Integers, Sequences, FiniteSets, TLC

(***************************************************************************)
(* Bounds of the model.                                                    *)
(***************************************************************************)
\* QueryExecutor.max_sessions (10 in query_executor.py:17), scaled down.
max_sessions == 2
\* QueryExecutor.session_timeout (3600 s in query_executor.py:18), in ticks.
session_timeout == 1

\* One session id more than the pool can hold.
Sessions == 1 .. (max_sessions + 1)
\* The last tick of the wall clock: long enough for a session registered at
\* tick 1 to be idle for more than session_timeout.
MaxTime == session_timeout + 2
\* The longest SQL text handed to the validator on its own, in lexemes.
MaxLen == 3
\* The threads that call the pool at the same time.
NumThreads == 2
Threads == 1 .. NumThreads
\* The most connections open for one session id that the model follows.
MaxOpened == 2
\* The DataFrames that can be registered.
Data == {"df1"}
\* The DataFrames a table can be bound to when the content matters.
Frames == Data \cup {"df2"}
\* The two table names the application registers under
\* (main.py:242 upload, main.py:292 query).
TableNames == {"data", "sales_data"}

\* A message is a sequence of text fragments (an f-string and its fields).
NONE == <<"None">>
NO_DATA_MSG == <<"No data registered for this session">>
\* str(e) of an exception of the DuckDB engine.
ENGINE_ERROR_MSG == <<"engine error">>
\* The execution time returned: the literal 0.0 of line 72, or the time
\* measured around the engine call (lines 83, 88).
ZERO_MS == <<"0.0">>
MEASURED_MS == <<"(time.time() - start_time) * 1000">>
\* The DataFrame fetchdf() returns for a query of the caller.
RESULT_DF == "result_df"

VARIABLES
    connections,   \* QueryExecutor.connections: session_id -> context (table name -> DataFrame)
    schema_cache,  \* QueryExecutor.schema_cache: the session ids that have a cached schema
    last_access,   \* QueryExecutor.last_access: session_id -> timestamp
    la_order,      \* insertion order of the keys of last_access (a Python dict is ordered)
    now,           \* the wall clock read by datetime.now()
    call,          \* the last QueryExecutor call and what it did and returned
    query,         \* the SQL text handed to validate_sql_query
    verdict,       \* what validate_sql_query returned for it
    pc,            \* where the /query handler stands ("idle": no request)
    local,         \* the handler's local variables
    log,           \* the calls the handler has made in this request
    response,      \* the QueryResponse or HTTP error of this request
    history,       \* the QueryHistory rows this request has added
    thread,        \* the register_dataframe call each concurrent thread is in
    opened         \* per session id, the connections those calls opened and did not close

poolVars == <<connections, schema_cache, last_access, la_order, now, call>>
validatorVars == <<query, verdict>>
handlerVars == <<pc, local, log, response, history>>
threadVars == <<thread, opened>>

(***************************************************************************)
(* Python dict helpers.                                                    *)
(***************************************************************************)
DictDel(d, k) == [x \in (DOMAIN d) \ {k} |-> d[x]]
DictSet(d, k, v) == [x \in (DOMAIN d) \cup {k} |-> IF x = k THEN v ELSE d[x]]
SeqDel(q, k) == SelectSeq(q, LAMBDA x : x # k)
Range(q) == {q[i] : i \in 1 .. Len(q)}
\* d[k] = v on an ordered dict: a new key goes last, an old key keeps its place.
OrderSet(q, k) == IF \E i \in 1 .. Len(q) : q[i] = k THEN q ELSE Append(q, k)

\* A fresh duckdb.connect(':memory:'): no table.
EmptyContext == <<>>

\* The pool as one value: the four attributes set by QueryExecutor.__init__.
ThePool ==
    [connections |-> connections, schema_cache |-> schema_cache,
     last_access |-> last_access, order |-> la_order]

EmptyPool ==
    [connections |-> <<>>, schema_cache |-> {}, last_access |-> <<>>, order |-> <<>>]

(***************************************************************************)
(* QueryExecutor.close_session                                             *)
(***************************************************************************)
\* Faulty variant of close_session: every connection is removed.
close_session_clear(p, s) ==
    [connections |-> <<>>,
     schema_cache |-> p.schema_cache \ {s},
     last_access  |-> IF s \in DOMAIN p.last_access
                     THEN DictDel(p.last_access, s) ELSE p.last_access,
     order        |-> SeqDel(p.order, s)]

\* Faulty variant of close_session: the access record stays (lines 142-143 left out).
close_session_stale_record(p, s) ==
    [connections |-> IF s \in DOMAIN p.connections
                     THEN DictDel(p.connections, s) ELSE p.connections,
     schema_cache |-> p.schema_cache \ {s},
     last_access  |-> p.last_access,
     order        |-> p.order]

\* Faulty variant of close_session: the connection stays in the pool.
close_session_keep(p, s) ==
    [connections |-> p.connections,
     schema_cache |-> p.schema_cache \ {s},
     last_access  |-> IF s \in DOMAIN p.last_access
                     THEN DictDel(p.last_access, s) ELSE p.last_access,
     order        |-> SeqDel(p.order, s)]

close_session(p, s) ==
    [connections |-> IF s \in DOMAIN p.connections
                     THEN DictDel(p.connections, s) ELSE p.connections,
     schema_cache |-> p.schema_cache \ {s},
     last_access  |-> IF s \in DOMAIN p.last_access
                     THEN DictDel(p.last_access, s) ELSE p.last_access,
     order        |-> SeqDel(p.order, s)]

(***************************************************************************)
(* QueryExecutor.clear_all_sessions                                        *)
(***************************************************************************)
\* Every connection is closed and self.connections is cleared; the method
\* touches neither last_access nor schema_cache.
clear_all_sessions(p) == [p EXCEPT !.connections = EmptyPool.connections]

(***************************************************************************)
(* QueryExecutor._cleanup_expired_sessions                                 *)
(***************************************************************************)
\* Faulty variant of is_expired: a session idle exactly session_timeout expires.
is_expired_ge(p, s, t) == (t - p.last_access[s]) >= session_timeout

\* Faulty variant of is_expired: a session never expires.
is_expired_never(p, s, t) == FALSE

is_expired(p, s, t) == (t - p.last_access[s]) > session_timeout

expired_sessions(p, t) == SelectSeq(p.order, LAMBDA s : is_expired(p, s, t))

RECURSIVE close_all(_, _)
close_all(p, q) ==
    IF q = <<>> THEN p ELSE close_all(close_session(p, Head(q)), Tail(q))

cleanup_expired_sessions(p, t) == close_all(p, expired_sessions(p, t))

(***************************************************************************)
(* QueryExecutor.register_dataframe                                        *)
(***************************************************************************)
\* Faulty variant of at_session_limit: the pool is full for a session that
\* has a context too.
at_session_limit_any(p, s) ==
    Cardinality(DOMAIN p.connections) >= max_sessions

\* Faulty variant of at_session_limit: > where the code tests >=.
at_session_limit_gt(p, s) ==
    s \notin DOMAIN p.connections /\ Cardinality(DOMAIN p.connections) > max_sessions

at_session_limit(p, s) ==
    s \notin DOMAIN p.connections /\ Cardinality(DOMAIN p.connections) >= max_sessions

\* Faulty variant of oldest_session: the most recently used session (max for min).
RECURSIVE newest_from(_, _, _)
newest_from(p, q, best) ==
    IF q = <<>> THEN best
    ELSE newest_from(p, Tail(q),
                     IF p.last_access[Head(q)] > p.last_access[best]
                     THEN Head(q) ELSE best)

oldest_session_max(p) == newest_from(p, Tail(p.order), Head(p.order))

\* min(self.last_access.keys(), key=...): the first key, in dict order, whose
\* timestamp is smallest.
RECURSIVE oldest_from(_, _, _)
oldest_from(p, q, best) ==
    IF q = <<>> THEN best
    ELSE oldest_from(p, Tail(q),
                     IF p.last_access[Head(q)] < p.last_access[best]
                     THEN Head(q) ELSE best)

oldest_session(p) == oldest_from(p, Tail(p.order), Head(p.order))

\* min() of an empty dict raises ValueError.
min_raises(p) == p.order = <<>>

\* Faulty variant of admit: a name that is bound keeps its DataFrame.
admit_keep_first(p, s, df, name, t) ==
    LET ctx == IF s \in DOMAIN p.connections THEN p.connections[s] ELSE EmptyContext
        new == IF name \in DOMAIN ctx THEN ctx ELSE DictSet(ctx, name, df)
    IN [connections |-> DictSet(p.connections, s, new),
        schema_cache |-> p.schema_cache,
        last_access  |-> DictSet(p.last_access, s, t),
        order        |-> OrderSet(p.order, s)]

\* Faulty variant of admit: the table is bound in every context of the pool.
admit_shared(p, s, df, name, t) ==
    LET ctx == IF s \in DOMAIN p.connections THEN p.connections[s] ELSE EmptyContext
    IN [connections |-> [x \in DOMAIN p.connections \cup {s} |->
                            IF x = s THEN DictSet(ctx, name, df)
                            ELSE DictSet(p.connections[x], name, df)],
        schema_cache |-> p.schema_cache,
        last_access  |-> DictSet(p.last_access, s, t),
        order        |-> OrderSet(p.order, s)]

\* Lines 44-54: create the context if absent, bind the table, stamp the access.
admit(p, s, df, name, t) ==
    LET ctx == IF s \in DOMAIN p.connections THEN p.connections[s] ELSE EmptyContext
    IN [connections |-> DictSet(p.connections, s, DictSet(ctx, name, df)),
        schema_cache |-> p.schema_cache,
        last_access  |-> DictSet(p.last_access, s, t),
        order        |-> OrderSet(p.order, s)]

\* Faulty variant of register_dataframe: the call returns without touching the pool.
register_dataframe_skip(p, s, df, name, t) ==
    [pool |-> p, expired |-> {}, lru |-> {}, raised |-> FALSE]

\* The pool after register_dataframe(s, df, name) at time t, and what the call did.
register_dataframe(p, s, df, name, t) ==
    LET p1 == cleanup_expired_sessions(p, t)
        expired == {expired_sessions(p, t)[i] : i \in 1 .. Len(expired_sessions(p, t))}
    IN IF at_session_limit(p1, s)
       THEN IF min_raises(p1)
            THEN [pool |-> p1, expired |-> expired, lru |-> {}, raised |-> TRUE]
            ELSE [pool |-> admit(close_session(p1, oldest_session(p1)), s, df, name, t),
                  expired |-> expired, lru |-> {oldest_session(p1)}, raised |-> FALSE]
       ELSE [pool |-> admit(p1, s, df, name, t),
             expired |-> expired, lru |-> {}, raised |-> FALSE]

(***************************************************************************)
(* QueryExecutor.execute_query                                             *)
(***************************************************************************)
\* An outcome is the tuple returned (success, result_df, error_message,
\* execution_time_ms; the result is a set, empty for None), with the number
\* of conn.execute calls made and whether an exception left the method.
\* Line 72.
no_data_outcome ==
    [success |-> FALSE, result |-> {}, error |-> NO_DATA_MSG, elapsed |-> ZERO_MS,
     engine_calls |-> 0, raised |-> FALSE]

\* Lines 82-85: the engine returned.
on_engine_result(result) ==
    [success |-> TRUE, result |-> result, error |-> NONE, elapsed |-> MEASURED_MS,
     engine_calls |-> 1, raised |-> FALSE]

\* Faulty variant of on_engine_error: the exception of the engine is raised again.
on_engine_error_reraise(e) ==
    [success |-> FALSE, result |-> {}, error |-> e, elapsed |-> MEASURED_MS,
     engine_calls |-> 1, raised |-> TRUE]

\* Lines 87-91: except Exception as e.
on_engine_error(e) ==
    [success |-> FALSE, result |-> {}, error |-> e, elapsed |-> MEASURED_MS,
     engine_calls |-> 1, raised |-> FALSE]

\* conn.execute(query).fetchdf() for a query the engine accepts (engine_ok) or
\* raises an error for.
engine_run(engine_ok) ==
    IF engine_ok THEN [raised |-> FALSE, result |-> {RESULT_DF}, error |-> NONE]
    ELSE [raised |-> TRUE, result |-> {}, error |-> ENGINE_ERROR_MSG]

\* Lines 71-91 for an engine that does run.
execute_with(p, s, run) ==
    IF s \notin DOMAIN p.connections THEN no_data_outcome
    ELSE IF run.raised THEN on_engine_error(run.error)
    ELSE on_engine_result(run.result)

\* conn.execute("SELECT * FROM <name>").fetchdf() on a context: the DataFrame
\* bound to the name, or the catalog error of the engine when none is.
select_from(ctx, name) ==
    IF name \in DOMAIN ctx
    THEN [raised |-> FALSE, result |-> {ctx[name]}, error |-> NONE]
    ELSE [raised |-> TRUE, result |-> {}, error |-> <<"Catalog Error: Table does not exist: ", name>>]

\* The outcome for an engine that answers engine_ok.
execute_outcome(p, s, engine_ok) == execute_with(p, s, engine_run(engine_ok))

\* Faulty variant of execute_pool: the access is not stamped (line 77 left out).
execute_pool_keep(p, s, t) == p

\* Faulty variant of execute_pool: the access is stamped before the lookup.
execute_pool_always(p, s, t) ==
    [p EXCEPT !.last_access = DictSet(p.last_access, s, t),
              !.order = OrderSet(p.order, s)]

\* The pool after execute_query(s, ...) at time t.
execute_pool(p, s, t) ==
    IF s \notin DOMAIN p.connections THEN p
    ELSE [p EXCEPT !.last_access = DictSet(p.last_access, s, t),
                   !.order = OrderSet(p.order, s)]

(***************************************************************************)
(* SQL text.  A text is a sequence of lexemes, the units the sqlparse       *)
(* lexer cuts it into (white space between them is left out; a lexeme       *)
(* stands for itself in any letter case unless it is listed in lower case). *)
(***************************************************************************)
DenyKeywords ==
    {"DROP", "DELETE", "TRUNCATE", "UPDATE", "INSERT", "ALTER",
     "CREATE", "REPLACE", "EXEC", "EXECUTE", "CALL"}

Lexemes ==
    DenyKeywords \cup
    {"SELECT", "WITH", "EXPLAIN", "exec", "t", "attachment", "'EXEC'", "'pragma'",
     "load_extension", "detached", ";", "(", ")"}

\* A comment between its marks, as the model or a user may put after a query.
COMMENT == "/* c */"

\* The token type the sqlparse lexer gives a lexeme (sqlparse.keywords:
\* KEYWORDS_COMMON and KEYWORDS).
ttype(x) ==
    CASE x \in {"SELECT", "DELETE", "UPDATE", "INSERT", "REPLACE"} -> "Keyword.DML"
      [] x \in {"DROP", "ALTER", "CREATE"} -> "Keyword.DDL"
      [] x = "WITH" -> "Keyword.CTE"
      [] x \in {"TRUNCATE", "EXEC", "EXECUTE", "CALL", "EXPLAIN", "exec"} -> "Keyword"
      [] x \in {"t", "attachment", "load_extension", "detached"} -> "Name"
      [] x = COMMENT -> "Comment.Multiline"
      [] x \in {"'EXEC'", "'pragma'"} -> "Literal.String.Single"
      [] x \in {";", "(", ")"} -> "Punctuation"
      [] OTHER -> "None"

\* str.upper() of a lexeme.
upper(x) ==
    CASE x = "exec" -> "EXEC"
      [] x = "'pragma'" -> "'PRAGMA'"
      [] x = "t" -> "T"
      [] x = "attachment" -> "ATTACHMENT"
      [] x = "load_extension" -> "LOAD_EXTENSION"
      [] x = "detached" -> "DETACHED"
      [] x = COMMENT -> "/* C */"
      [] OTHER -> x

\* func in x: the names of dangerous_functions that are substrings of x.
substrings(x) ==
    CASE x = "ATTACHMENT" -> {"ATTACH"}
      [] x = "'PRAGMA'" -> {"PRAGMA"}
      [] x = "LOAD_EXTENSION" -> {"LOAD_EXTENSION"}
      [] x = "DETACHED" -> {"DETACH"}
      [] OTHER -> {}

\* sqlparse.parse: the statement splitter.  A statement ends with a ';' met at
\* parenthesis level <= 0; what follows the last such ';' is a statement if it
\* is not empty (white space apart), also when it holds nothing but a
\* comment between marks.  The level starts at 0 in every statement.
RECURSIVE split(_, _, _, _)
split(q, level, cur, acc) ==
    IF q = <<>> THEN (IF cur = <<>> THEN acc ELSE Append(acc, cur))
    ELSE LET x == Head(q)
             lv == level + (CASE x = "(" -> 1 [] x = ")" -> -1 [] OTHER -> 0)
         IN IF lv <= 0 /\ x = ";"
            THEN split(Tail(q), 0, <<>>, Append(acc, Append(cur, x)))
            ELSE split(Tail(q), lv, Append(cur, x), acc)

parse(q) == split(q, 0, <<>>, <<>>)

\* The top-level tokens of a statement after grouping: a matched pair of
\* parentheses and what it encloses is one group (written "()"), a run of
\* adjacent names is one Identifier; an unmatched parenthesis stays a token.
RECURSIVE group(_, _)
group(q, stack) ==
    IF q = <<>>
    THEN IF Len(stack) = 1 THEN stack[1]
         ELSE group(q, Append(SubSeq(stack, 1, Len(stack) - 2),
                              stack[Len(stack) - 1] \o <<"(">> \o stack[Len(stack)]))
    ELSE LET x == Head(q)
             n == Len(stack)
         IN IF x = "(" THEN group(Tail(q), Append(stack, <<>>))
            ELSE IF x = ")" /\ n > 1
            THEN group(Tail(q), Append(SubSeq(stack, 1, n - 2), Append(stack[n - 1], "()")))
            ELSE IF ttype(x) = "Name" /\ stack[n] # <<>>
                    /\ ttype(stack[n][Len(stack[n])]) = "Name"
            THEN group(Tail(q), stack)
            ELSE group(Tail(q), Append(SubSeq(stack, 1, n - 1), Append(stack[n], x)))

top_tokens(stmt) == group(stmt, << <<>> >>)

is_identifier(x) == ttype(x) = "Name"

\* Statement.get_type, the branch for a statement that starts with WITH: the
\* first DML keyword that directly follows an Identifier.
RECURSIVE cte_type(_, _)
cte_type(top, i) ==
    IF i + 1 > Len(top) THEN "UNKNOWN"
    ELSE IF is_identifier(top[i + 1])
    THEN IF i + 2 > Len(top) THEN "UNKNOWN"
         ELSE IF ttype(top[i + 2]) = "Keyword.DML" THEN upper(top[i + 2])
         ELSE cte_type(top, i + 2)
    ELSE cte_type(top, i + 1)

\* token_first(skip_cm=True): the place of the first token that is no
\* comment (0: none).
RECURSIVE token_first(_, _)
token_first(top, i) ==
    IF i > Len(top) THEN 0
    ELSE IF ttype(top[i]) = "Comment.Multiline" THEN token_first(top, i + 1)
    ELSE i

\* Statement.get_type.
get_type(stmt) ==
    LET top == top_tokens(stmt)
        first == token_first(top, 1)
    IN IF first = 0 THEN "UNKNOWN"
       ELSE IF ttype(top[first]) \in {"Keyword.DML", "Keyword.DDL"} THEN upper(top[first])
       ELSE IF ttype(top[first]) = "Keyword.CTE" THEN cte_type(top, first)
       ELSE "UNKNOWN"

(***************************************************************************)
(* LLMAgent.validate_sql_query                                             *)
(***************************************************************************)
\* (is_valid, error_message): rule names the return statement taken, detail
\* the field of its message.
Valid == [valid |-> TRUE, rule |-> "none", detail |-> "None"]
Invalid(rule, detail) == [valid |-> FALSE, rule |-> rule, detail |-> detail]

\* The error_message of a verdict (the text of the ValueError _clean_sql raises).
error_msg(v) ==
    CASE v.rule = "parse" -> <<"Invalid SQL syntax: Unable to parse query">>
      [] v.rule = "multiple" ->
            <<"Multiple SQL statements detected. Only single SELECT queries are allowed">>
      [] v.rule = "type" -> <<"Only SELECT queries are allowed. Detected: ", v.detail>>
      [] v.rule = "keyword" ->
            <<"Unsafe SQL operation detected: ", v.detail, ". Only SELECT queries are allowed">>
      [] v.rule = "function" -> <<"Unauthorized function detected: ", v.detail>>
      [] v.rule = "generation" -> <<"Response blocked: ", v.detail>>
      [] v.rule = "exception" -> <<"SQL validation error: ", v.detail>>
      [] OTHER -> NONE

\* stmt_type in ('SELECT', 'UNKNOWN')
type_allowed(stmt_type) == stmt_type \in {"SELECT", "UNKNOWN"}

\* token.ttype is Keyword: the token type itself, not one of its sub-types.
is_keyword(x) == ttype(x) = "Keyword"

\* The first token of the statement the keyword scan stops at (0: none).
RECURSIVE first_dangerous(_, _)
first_dangerous(stmt, i) ==
    IF i > Len(stmt) THEN 0
    ELSE IF is_keyword(stmt[i]) /\ upper(stmt[i]) \in DenyKeywords THEN i
    ELSE first_dangerous(stmt, i + 1)

dangerous_functions == <<"LOAD_EXTENSION", "ATTACH", "DETACH", "PRAGMA">>

\* Faulty variant of func_in: a name is found only as a whole token.
func_in_token(func, q) == \E i \in 1 .. Len(q) : upper(q[i]) = func

\* func in query_upper
func_in(func, q) == \E i \in 1 .. Len(q) : func \in substrings(upper(q[i]))

\* The first name of dangerous_functions found in the text (0: none).
RECURSIVE first_function(_, _)
first_function(q, k) ==
    IF k > Len(dangerous_functions) THEN 0
    ELSE IF func_in(dangerous_functions[k], q) THEN k
    ELSE first_function(q, k + 1)

\* Faulty variant of multiple_statements: > 2 where the code tests > 1.
multiple_statements_two(parsed) == Len(parsed) > 2

\* len(parsed) > 1
multiple_statements(parsed) == Len(parsed) > 1

validate_statement(q, parsed) ==
    LET statement == parsed[1]
        stmt_type == get_type(statement)
        kw == first_dangerous(statement, 1)
        fn == first_function(q, 1)
    IN IF ~type_allowed(stmt_type) THEN Invalid("type", stmt_type)
       ELSE IF kw # 0 THEN Invalid("keyword", upper(statement[kw]))
       ELSE IF fn # 0 THEN Invalid("function", dangerous_functions[fn])
       ELSE Valid

\* The body of the try block (lines 338-377), for a query that is a text.
validate_sql_query(q) ==
    LET parsed == parse(q)
    IN IF parsed = <<>> THEN Invalid("parse", "None")
       ELSE IF multiple_statements(parsed) THEN Invalid("multiple", "None")
       ELSE validate_statement(q, parsed)

\* An argument that is not a str (None): the sqlparse lexer raises TypeError.
NotAString == <<"<None>">>

parse_raises(q) == q = NotAString

\* Faulty variant of on_validation_error: the exception leaves the method.
on_validation_error_reraise(e) == [valid |-> FALSE, rule |-> "raised", detail |-> e]

\* Lines 379-380: except Exception as e.
on_validation_error(e) == Invalid("exception", e)

\* validate_sql_query with its exception handler (lines 337-380).
validate_sql_query_try(q) ==
    IF parse_raises(q) THEN on_validation_error("TypeError")
    ELSE validate_sql_query(q)

(***************************************************************************)
(* LLMAgent._clean_sql.  The raw text of the model is a sequence of lines,  *)
(* each a sequence of lexemes; beyond the SQL lexemes a line may hold the   *)
(* markdown fences and, at its start, a comment mark.                       *)
(***************************************************************************)
Fences == {"<fence>sql", "<fence>"}
CommentMarks == {"#", "--"}

\* sql.replace(FENCE + 'sql', '').replace(FENCE, ''), FENCE the three-backquote mark.
strip_fences(line) == SelectSeq(line, LAMBDA x : x \notin Fences)

\* if line and not line.startswith('#') and not line.startswith('--')
keep_line(line) == line # <<>> /\ Head(line) \notin CommentMarks

\* ' '.join(sql_lines) over the lines kept.
RECURSIVE join_lines(_)
join_lines(lines) ==
    IF lines = <<>> THEN <<>>
    ELSE LET line == strip_fences(Head(lines))
         IN (IF keep_line(line) THEN line ELSE <<>>) \o join_lines(Tail(lines))

\* Faulty variant of clean_raises: the text is returned whatever the verdict.
clean_raises_never(v) == FALSE

\* if not is_valid: raise ValueError(error_msg)
clean_raises(v) == ~v.valid

\* _clean_sql: the cleaned text, or the ValueError raised for it.
clean_sql(lines) ==
    LET sql == join_lines(lines)
        v == validate_sql_query(sql)
    IN [raised |-> clean_raises(v), sql |-> sql, detail |-> v]

(***************************************************************************)
(* The external model.  _get_response_text returns the text of a response   *)
(* with parts, returns "" for an empty response that finished with STOP and *)
(* raises ValueError for a blocked one.                                     *)
(***************************************************************************)
Text(lines) == [kind |-> "text", lines |-> lines]
Blocked == [kind |-> "blocked", lines |-> <<>>]
Empty == [kind |-> "empty", lines |-> <<>>]

LLMResponses ==
    {Text(<< <<"SELECT", "t">> >>),
     Text(<< <<"<fence>sql">>, <<"SELECT", "t">>, <<"<fence>">> >>),
     Text(<< <<"--", "t">>, <<"WITH", "t", "SELECT", "t">> >>),
     Text(<< <<"DROP", "t">> >>),
     Text(<< <<"SELECT", "t", ";", "DROP", "t">> >>),
     Text(<< <<"EXPLAIN", "DELETE", "t">> >>),
     Text(<< <<"#", "t">> >>),
     Blocked, Empty}

\* The ValueError of _get_response_text for a blocked response (line 57).
GenerationError == Invalid("generation", "SAFETY")

\* generate_content, _get_response_text, _clean_sql: the tail common to
\* generate_sql (lines 112-118) and refine_query (lines 151-154).
llm_sql(resp) ==
    IF resp.kind = "blocked"
    THEN [raised |-> TRUE, sql |-> <<>>, detail |-> GenerationError]
    ELSE clean_sql(resp.lines)

generate_sql(resp) == llm_sql(resp)

refine_query(resp) == llm_sql(resp)

(***************************************************************************)
(* The pool as a state machine: calls arrive one at a time.                *)
(***************************************************************************)
SetPool(p) ==
    /\ connections' = p.connections
    /\ schema_cache' = p.schema_cache
    /\ last_access' = p.last_access
    /\ la_order' = p.order

NoCall ==
    [op |-> "none", sid |-> {}, expired |-> {}, lru |-> {}, before |-> EmptyContext,
     stale |-> FALSE, success |-> FALSE, result |-> {}, error |-> NONE,
     elapsed |-> ZERO_MS, engine_calls |-> 0, raised |-> FALSE]

\* Session s has an access record older than session_timeout.
Stale(s) == s \in DOMAIN last_access /\ now - last_access[s] > session_timeout

\* One call of QueryExecutor.register_dataframe, at the current time.
RegisterDataframe(s, df, name) ==
    LET r == register_dataframe(ThePool, s, df, name, now)
    IN /\ SetPool(r.pool)
       /\ call' = [NoCall EXCEPT !.op = "register_dataframe", !.sid = {s},
                                 !.expired = r.expired, !.lru = r.lru,
                                 !.before = IF s \in DOMAIN connections
                                            THEN connections[s] ELSE EmptyContext,
                                 !.stale = Stale(s), !.raised = r.raised]

\* One call of QueryExecutor.execute_query at the current time, for what the
\* engine does with the query.
ExecuteQueryWith(s, run) ==
    LET o == execute_with(ThePool, s, run)
    IN /\ SetPool(execute_pool(ThePool, s, now))
       /\ call' = [NoCall EXCEPT !.op = "execute_query", !.sid = {s},
                                 !.stale = Stale(s),
                                 !.success = o.success, !.result = o.result,
                                 !.error = o.error, !.elapsed = o.elapsed,
                                 !.engine_calls = o.engine_calls,
                                 !.raised = o.raised]

ExecuteQuery(s, engine_ok) == ExecuteQueryWith(s, engine_run(engine_ok))

\* One call of QueryExecutor.close_session.
CloseSession(s) ==
    /\ SetPool(close_session(ThePool, s))
    /\ call' = [NoCall EXCEPT !.op = "close_session", !.sid = {s}, !.stale = Stale(s)]

\* One call of QueryExecutor.clear_all_sessions.
ClearAllSessions ==
    /\ SetPool(clear_all_sessions(ThePool))
    /\ call' = [NoCall EXCEPT !.op = "clear_all_sessions"]

(***************************************************************************)
(* The /query handler (main.py execute_query), one step per call it makes.  *)
(* The handlers are coroutines that never await: a request runs to its end  *)
(* before the next one starts.                                              *)
(***************************************************************************)
NoSql == <<>>

NoLocal ==
    [session_id |-> {}, sql_query |-> NoSql, refined_sql |-> NoSql,
     success |-> FALSE, error |-> NONE]

\* generate: calls of generate_sql; refine: the arguments of each refine_query
\* call; rejected: the texts _clean_sql raised for, with the verdict; executed, outcomes: the
\* text and the success flag of each query_executor.execute_query call;
\* created: the registration of line 292 found no context for the session.
NoLog ==
    [generate |-> 0, refine |-> <<>>, rejected |-> <<>>, executed |-> <<>>,
     outcomes |-> <<>>, created |-> FALSE]

NoResponse == [status |-> "none", success |-> FALSE, sql_query |-> NoSql, error |-> NONE]

HttpError(status, detail) ==
    [status |-> status, success |-> FALSE, sql_query |-> NoSql, error |-> detail]

\* log.rejected after generate_sql or refine_query returned or raised g.
Rejections(g) ==
    IF g.raised /\ g.detail.rule # "generation"
    THEN Append(log.rejected, [sql |-> g.sql, verdict |-> g.detail])
    ELSE log.rejected

\* Faulty variant of after_generator_error: the generator is called again.
after_generator_error_retry == "generate"

\* except Exception as e: raise HTTPException (lines 369-370): where an
\* exception of generate_sql or refine_query leaves the request.
after_generator_error == "failed"

\* Faulty variant of needs_refine: refine whatever the first outcome.
needs_refine_always(success) == TRUE

\* if not success (line 305)
needs_refine(success) == ~success

\* Faulty variant of reported_sql: sql_query stays as it was (line 316 left out).
reported_sql_first(sql_query, refined_sql) == sql_query

\* sql_query = refined_sql (line 316)
reported_sql(sql_query, refined_sql) == refined_sql

HandlerInit ==
    /\ pc = "idle"
    /\ local = NoLocal
    /\ log = NoLog
    /\ response = NoResponse
    /\ history = <<>>

\* Lines 270-292: look the session up, load its data, register it.
QueryStart(s, found, df) ==
    /\ pc = "idle"
    /\ local' = [NoLocal EXCEPT !.session_id = {s}]
    /\ log' = [NoLog EXCEPT !.created = found /\ s \notin DOMAIN connections]
    /\ history' = <<>>
    /\ IF ~found
       THEN /\ pc' = "failed"
            /\ response' = HttpError("404 or 400", <<"Session not found or no data uploaded">>)
            /\ UNCHANGED <<connections, schema_cache, last_access, la_order, call>>
       ELSE /\ RegisterDataframe(s, df, "sales_data")
            /\ pc' = IF call'.raised THEN "failed" ELSE "generate"
            /\ response' = IF call'.raised THEN HttpError("500", <<"min() arg is an empty sequence">>)
                           ELSE NoResponse
    /\ UNCHANGED <<threadVars, now, query, verdict>>

\* Lines 294-300: llm_agent.generate_sql.
QueryGenerate(resp) ==
    /\ pc = "generate"
    /\ LET g == generate_sql(resp)
       IN /\ log' = [log EXCEPT !.generate = @ + 1, !.rejected = Rejections(g)]
          /\ IF g.raised
             THEN /\ pc' = after_generator_error
                  /\ response' = HttpError("500", error_msg(g.detail))
                  /\ UNCHANGED local
             ELSE /\ pc' = "execute"
                  /\ local' = [local EXCEPT !.sql_query = g.sql]
                  /\ UNCHANGED response
    /\ UNCHANGED <<threadVars, poolVars, validatorVars, history>>

\* Line 303: the first query_executor.execute_query.
QueryExecute(s, engine_ok) ==
    /\ pc = "execute"
    /\ local.session_id = {s}
    /\ ExecuteQuery(s, engine_ok)
    /\ local' = [local EXCEPT !.success = call'.success, !.error = call'.error]
    /\ log' = [log EXCEPT !.executed = Append(@, local.sql_query),
                          !.outcomes = Append(@, call'.success)]
    /\ pc' = IF needs_refine(call'.success) THEN "refine" ELSE "respond"
    /\ UNCHANGED <<threadVars, now, validatorVars, response, history>>

\* Lines 305-313: llm_agent.refine_query.
QueryRefine(resp) ==
    /\ pc = "refine"
    /\ LET r == refine_query(resp)
       IN /\ log' = [log EXCEPT !.refine = Append(@, [failed_query |-> local.sql_query,
                                                        error_message |-> local.error]),
                                !.rejected = Rejections(r)]
          /\ IF r.raised
             THEN /\ pc' = after_generator_error
                  /\ response' = HttpError("500", error_msg(r.detail))
                  /\ UNCHANGED local
             ELSE /\ pc' = "execute_refined"
                  /\ local' = [local EXCEPT !.refined_sql = r.sql]
                  /\ UNCHANGED response
    /\ UNCHANGED <<threadVars, poolVars, validatorVars, history>>

\* Lines 315-316: the second query_executor.execute_query.
QueryExecuteRefined(s, engine_ok) ==
    /\ pc = "execute_refined"
    /\ local.session_id = {s}
    /\ ExecuteQuery(s, engine_ok)
    /\ local' = [local EXCEPT !.success = call'.success, !.error = call'.error,
                              !.sql_query = reported_sql(local.sql_query, local.refined_sql)]
    /\ log' = [log EXCEPT !.executed = Append(@, local.refined_sql),
                          !.outcomes = Append(@, call'.success)]
    /\ pc' = "respond"
    /\ UNCHANGED <<threadVars, now, validatorVars, response, history>>

\* Lines 318-367: the history row and the response.  suggest_visualization
\* calls the external model, which may raise (line 274).
QueryRespond(viz_ok) ==
    /\ pc = "respond"
    /\ IF local.success /\ ~viz_ok
       THEN /\ pc' = "failed"
            /\ response' = HttpError("500", <<"visualization error">>)
            /\ UNCHANGED history
       ELSE /\ pc' = "done"
            /\ history' = Append(history,
                   [sql_query |-> local.sql_query,
                    status |-> IF local.success THEN "success" ELSE "error",
                    error_msg |-> local.error])
            /\ response' = [status |-> "200", success |-> local.success,
                            sql_query |-> local.sql_query, error |-> local.error]
    /\ UNCHANGED <<threadVars, poolVars, validatorVars, local, log>>

\* The request is over; the handler is free for the next one.
QueryReturn ==
    /\ pc \in {"done", "failed"}
    /\ pc' = "idle"
    /\ local' = NoLocal
    /\ log' = NoLog
    /\ response' = NoResponse
    /\ history' = <<>>
    /\ UNCHANGED <<threadVars, poolVars, validatorVars>>

(***************************************************************************)
(* The other requests that reach the pool.                                  *)
(***************************************************************************)
\* POST /upload, main.py:242.
Upload(s, df) ==
    /\ pc = "idle"
    /\ RegisterDataframe(s, df, "data")
    /\ UNCHANGED <<threadVars, now, validatorVars, handlerVars>>

\* A query of session s that reaches the executor (main.py:303, 315).
Execute(s, engine_ok) ==
    /\ pc = "idle"
    /\ ExecuteQuery(s, engine_ok)
    /\ UNCHANGED <<threadVars, now, validatorVars, handlerVars>>

\* DELETE /sessions/{session_id}, main.py:397.
Delete(s) ==
    /\ pc = "idle"
    /\ CloseSession(s)
    /\ UNCHANGED <<threadVars, now, validatorVars, handlerVars>>

\* What is registered for a session when the tables matter.  The sessions are
\* interchangeable: the first is registered under both names and with both
\* DataFrames, the others as /upload registers them.
Registrations(s) ==
    IF s = 1 THEN Frames \X TableNames ELSE Data \X {"data"}

\* What is registered when the idle times matter: the first session by
\* /upload and by /query, the others by /upload, all with the same DataFrame.
IdleRegistrations(s) ==
    IF s = 1 THEN Data \X TableNames ELSE Data \X {"data"}

\* A registration under either table name, with any of the DataFrames.
Register(s, df, name) ==
    /\ pc = "idle"
    /\ RegisterDataframe(s, df, name)
    /\ UNCHANGED <<threadVars, now, validatorVars, handlerVars>>

\* A query that reads one table of session s.
Select(s, name) ==
    /\ pc = "idle"
    /\ ExecuteQueryWith(s, select_from(IF s \in DOMAIN connections
                                       THEN connections[s] ELSE EmptyContext, name))
    /\ UNCHANGED <<threadVars, now, validatorVars, handlerVars>>

\* clear_all_sessions called on the global executor between two requests.
ClearAll ==
    /\ pc = "idle"
    /\ ClearAllSessions
    /\ UNCHANGED <<threadVars, now, validatorVars, handlerVars>>

\* Wall-clock time passes between calls.
Tick ==
    /\ now < MaxTime
    /\ now' = now + 1
    /\ UNCHANGED <<threadVars, connections, schema_cache, last_access, la_order, call,
                   validatorVars, handlerVars>>

(***************************************************************************)
(* QueryExecutor.register_dataframe called by several threads on the one    *)
(* global instance.  The method takes no lock: a thread can be suspended    *)
(* between any two of its statements, so a call is a sequence of steps.     *)
(***************************************************************************)
NoThread == [pc |-> "idle", sid |-> {}, raised |-> FALSE]

\* opened after the connections of the sessions in closed were closed
\* (close_session, line 136: only a connection that is in the pool).
Closed(p, closed) ==
    [s \in Sessions |->
        IF s \in closed /\ s \in DOMAIN p.connections THEN opened[s] - 1 ELSE opened[s]]

\* Thread t enters register_dataframe(s, df, "data").
ThreadCall(t, s) ==
    /\ pc = "idle"
    /\ thread[t].pc = "idle"
    /\ thread' = [thread EXCEPT ![t] = [pc |-> "cleanup", sid |-> {s}, raised |-> FALSE]]
    /\ UNCHANGED <<poolVars, validatorVars, handlerVars, opened>>

\* Line 36.
ThreadCleanup(t) ==
    /\ thread[t].pc = "cleanup"
    /\ SetPool(cleanup_expired_sessions(ThePool, now))
    /\ opened' = Closed(ThePool, Range(expired_sessions(ThePool, now)))
    /\ thread' = [thread EXCEPT ![t].pc = "limit"]
    /\ UNCHANGED <<now, call, validatorVars, handlerVars>>

\* Lines 39-42.
ThreadLimit(t) ==
    /\ thread[t].pc = "limit"
    /\ \E s \in thread[t].sid :
          IF ~at_session_limit(ThePool, s)
          THEN /\ thread' = [thread EXCEPT ![t].pc = "check"]
               /\ UNCHANGED <<connections, schema_cache, last_access, la_order, opened>>
          ELSE IF min_raises(ThePool)
          THEN /\ thread' = [thread EXCEPT ![t] = [NoThread EXCEPT !.raised = TRUE]]
               /\ UNCHANGED <<connections, schema_cache, last_access, la_order, opened>>
          ELSE /\ SetPool(close_session(ThePool, oldest_session(ThePool)))
               /\ opened' = Closed(ThePool, {oldest_session(ThePool)})
               /\ thread' = [thread EXCEPT ![t].pc = "check"]
    /\ UNCHANGED <<now, call, validatorVars, handlerVars>>

\* Line 45: the test.
ThreadCheck(t) ==
    /\ thread[t].pc = "check"
    /\ \E s \in thread[t].sid :
          thread' = [thread EXCEPT ![t].pc = IF s \notin DOMAIN connections
                                             THEN "create" ELSE "bind"]
    /\ UNCHANGED <<poolVars, validatorVars, handlerVars, opened>>

\* Line 46: the assignment, whatever the pool holds for the session by now.
ThreadCreate(t) ==
    /\ thread[t].pc = "create"
    /\ \E s \in thread[t].sid :
          /\ opened[s] < MaxOpened
          /\ connections' = DictSet(connections, s, EmptyContext)
          /\ opened' = [opened EXCEPT ![s] = @ + 1]
    /\ thread' = [thread EXCEPT ![t].pc = "bind"]
    /\ UNCHANGED <<schema_cache, last_access, la_order, now, call,
                   validatorVars, handlerVars>>

\* Lines 48-51; line 48 raises KeyError when the session was evicted meanwhile.
ThreadBind(t, df) ==
    /\ thread[t].pc = "bind"
    /\ \E s \in thread[t].sid :
          IF s \notin DOMAIN connections
          THEN /\ thread' = [thread EXCEPT ![t] = [NoThread EXCEPT !.raised = TRUE]]
               /\ UNCHANGED connections
          ELSE /\ connections' = DictSet(connections, s, DictSet(connections[s], "data", df))
               /\ thread' = [thread EXCEPT ![t].pc = "stamp"]
    /\ UNCHANGED <<schema_cache, last_access, la_order, now, call,
                   validatorVars, handlerVars, opened>>

\* Line 54, and the return.
ThreadStamp(t) ==
    /\ thread[t].pc = "stamp"
    /\ \E s \in thread[t].sid :
          /\ last_access' = DictSet(last_access, s, now)
          /\ la_order' = OrderSet(la_order, s)
    /\ thread' = [thread EXCEPT ![t] = NoThread]
    /\ UNCHANGED <<connections, schema_cache, now, call,
                   validatorVars, handlerVars, opened>>

(***************************************************************************)
(* QueryExecutor.execute_query and QueryExecutor.close_session called by    *)
(* threads on the one global instance, statement by statement.              *)
(***************************************************************************)
\* Thread t enters execute_query(s, query).
RaceExecuteCall(t, s) ==
    /\ pc = "idle"
    /\ thread[t].pc = "idle"
    /\ thread' = [thread EXCEPT ![t] = [pc |-> "x_check", sid |-> {s}, raised |-> FALSE]]
    /\ UNCHANGED <<poolVars, validatorVars, handlerVars, opened>>

\* Lines 71-72: the membership test, and the return when it fails.
RaceExecuteCheck(t) ==
    /\ thread[t].pc = "x_check"
    /\ \E s \in thread[t].sid :
          thread' = [thread EXCEPT ![t] = IF s \notin DOMAIN connections
                                          THEN NoThread
                                          ELSE [@ EXCEPT !.pc = "x_get"]]
    /\ UNCHANGED <<poolVars, validatorVars, handlerVars, opened>>

\* Line 74, outside the try: self.connections[session_id] raises KeyError
\* when the session has left the pool since the test.
RaceExecuteGet(t) ==
    /\ thread[t].pc = "x_get"
    /\ \E s \in thread[t].sid :
          thread' = [thread EXCEPT ![t] = IF s \notin DOMAIN connections
                                          THEN [NoThread EXCEPT !.raised = TRUE]
                                          ELSE [@ EXCEPT !.pc = "x_stamp"]]
    /\ UNCHANGED <<poolVars, validatorVars, handlerVars, opened>>

\* Line 77: the access record is written, whatever the pool holds by now.
RaceExecuteStamp(t) ==
    /\ thread[t].pc = "x_stamp"
    /\ \E s \in thread[t].sid :
          /\ last_access' = DictSet(last_access, s, now)
          /\ la_order' = OrderSet(la_order, s)
    /\ thread' = [thread EXCEPT ![t].pc = "x_run"]
    /\ UNCHANGED <<connections, schema_cache, now, call,
                   validatorVars, handlerVars, opened>>

\* Lines 81-91: the engine runs the query on the connection of line 74 or
\* raises (also when the connection was closed meanwhile); either way a tuple
\* is returned.
RaceExecuteRun(t) ==
    /\ thread[t].pc = "x_run"
    /\ thread' = [thread EXCEPT ![t] = NoThread]
    /\ UNCHANGED <<poolVars, validatorVars, handlerVars, opened>>

\* Thread t enters close_session(s).
RaceCloseCall(t, s) ==
    /\ pc = "idle"
    /\ thread[t].pc = "idle"
    /\ thread' = [thread EXCEPT ![t] = [pc |-> "c_conn", sid |-> {s}, raised |-> FALSE]]
    /\ UNCHANGED <<poolVars, validatorVars, handlerVars, opened>>

\* Lines 135-137.
RaceCloseConn(t) ==
    /\ thread[t].pc = "c_conn"
    /\ \E s \in thread[t].sid :
          connections' = IF s \in DOMAIN connections
                         THEN DictDel(connections, s) ELSE connections
    /\ thread' = [thread EXCEPT ![t].pc = "c_records"]
    /\ UNCHANGED <<schema_cache, last_access, la_order, now, call,
                   validatorVars, handlerVars, opened>>

\* Lines 140-143, and the return.
RaceCloseRecords(t) ==
    /\ thread[t].pc = "c_records"
    /\ \E s \in thread[t].sid :
          /\ schema_cache' = schema_cache \ {s}
          /\ last_access' = IF s \in DOMAIN last_access
                             THEN DictDel(last_access, s) ELSE last_access
          /\ la_order' = SeqDel(la_order, s)
    /\ thread' = [thread EXCEPT ![t] = NoThread]
    /\ UNCHANGED <<connections, now, call, validatorVars, handlerVars, opened>>

\* A pause between calls that is longer than session_timeout.
Pause ==
    /\ now + session_timeout + 1 <= MaxTime
    /\ now' = now + session_timeout + 1
    /\ UNCHANGED <<threadVars, connections, schema_cache, last_access, la_order, call,
                   validatorVars, handlerVars>>

(***************************************************************************)
(* The validator on its own, applied to every text of at most MaxLen        *)
(* lexemes.                                                                 *)
(***************************************************************************)
AllTexts(len) == UNION {[1 .. n -> Lexemes] : n \in 0 .. len}

\* What may follow a query: a ';' and a comment.
Trailer == <<";", COMMENT>>

\* Every text of at most MaxLen lexemes, and the shorter ones with a trailer.
Texts == AllTexts(MaxLen) \cup {q \o Trailer : q \in AllTexts(MaxLen - 1)}

NoVerdict == [valid |-> FALSE, rule |-> "pending", detail |-> "None"]

Validate ==
    /\ verdict = NoVerdict
    /\ verdict' = validate_sql_query_try(query)
    /\ UNCHANGED <<threadVars, poolVars, handlerVars, query>>

(***************************************************************************)
(* Specifications.                                                         *)
(***************************************************************************)
vars == <<connections, schema_cache, last_access, la_order, now, call,
          query, verdict, pc, local, log, response, history, thread, opened>>

PoolInit ==
    /\ connections = EmptyPool.connections
    /\ schema_cache = EmptyPool.schema_cache
    /\ last_access = EmptyPool.last_access
    /\ la_order = EmptyPool.order
    /\ now = 0
    /\ call = NoCall

ThreadInit ==
    /\ thread = [t \in Threads |-> NoThread]
    /\ opened = [s \in Sessions |-> 0]

\* The pool under the calls of the application and the passing of time.
\* Registrations here are those of /upload (table "data"); the registrations
\* of /query (table "sales_data") are part of SpecQuery, where the clock stands.
Init ==
    /\ PoolInit
    /\ HandlerInit
    /\ ThreadInit
    /\ query = <<>>
    /\ verdict = NoVerdict

Next ==
    \/ \E s \in Sessions, df \in Data : Upload(s, df)
    \/ \E s \in Sessions, engine_ok \in BOOLEAN : Execute(s, engine_ok)
    \/ \E s \in Sessions : Delete(s)
    \/ Tick

Spec == Init /\ [][Next]_vars

\* The /query handler, among uploads and deletions, at one instant.
NextQuery ==
    \/ \E s \in Sessions, found \in BOOLEAN, df \in Data : QueryStart(s, found, df)
    \/ \E resp \in LLMResponses : QueryGenerate(resp)
    \/ \E s \in Sessions, engine_ok \in BOOLEAN : QueryExecute(s, engine_ok)
    \/ \E resp \in LLMResponses : QueryRefine(resp)
    \/ \E s \in Sessions, engine_ok \in BOOLEAN : QueryExecuteRefined(s, engine_ok)
    \/ \E viz_ok \in BOOLEAN : QueryRespond(viz_ok)
    \/ QueryReturn
    \/ \E s \in Sessions, df \in Data : Upload(s, df)
    \/ \E s \in Sessions : Delete(s)

SpecQuery == Init /\ [][NextQuery]_vars

\* The tables of the pool: registrations under both names with different
\* data, queries of one table, deletions and long pauses.
NextTables ==
    \/ \E s \in Sessions : \E r \in Registrations(s) : Register(s, r[1], r[2])
    \/ \E s \in Sessions, name \in TableNames : Select(s, name)
    \/ \E s \in Sessions : Delete(s)
    \/ Pause

SpecTables == Init /\ [][NextTables]_vars

\* The pool when clear_all_sessions is among the calls.
NextClear ==
    \/ \E s \in Sessions, df \in Data : Upload(s, df)
    \/ \E s \in Sessions, engine_ok \in BOOLEAN : Execute(s, engine_ok)
    \/ \E s \in Sessions : Delete(s)
    \/ ClearAll
    \/ Tick

SpecClear == Init /\ [][NextClear]_vars

\* Registrations under both names as the clock advances one unit at a time.
NextIdle ==
    \/ \E s \in Sessions : \E r \in IdleRegistrations(s) : Register(s, r[1], r[2])
    \/ Tick

SpecIdle == Init /\ [][NextIdle]_vars

\* Threads that register sessions at the same time, and long pauses.
NextThreads ==
    \/ \E t \in Threads, s \in Sessions : ThreadCall(t, s)
    \/ \E t \in Threads : ThreadCleanup(t)
    \/ \E t \in Threads : ThreadLimit(t)
    \/ \E t \in Threads : ThreadCheck(t)
    \/ \E t \in Threads : ThreadCreate(t)
    \/ \E t \in Threads, df \in Data : ThreadBind(t, df)
    \/ \E t \in Threads : ThreadStamp(t)
    \/ Pause

SpecThreads == Init /\ [][NextThreads]_vars

\* Threads that query and close sessions at the same time, among
\* registrations (each made in one piece, with the eviction it may contain).
NextRace ==
    \/ \E s \in Sessions, df \in Data : Upload(s, df)
    \/ \E t \in Threads, s \in Sessions : RaceExecuteCall(t, s)
    \/ \E t \in Threads : RaceExecuteCheck(t)
    \/ \E t \in Threads : RaceExecuteGet(t)
    \/ \E t \in Threads : RaceExecuteStamp(t)
    \/ \E t \in Threads : RaceExecuteRun(t)
    \/ \E t \in Threads, s \in Sessions : RaceCloseCall(t, s)
    \/ \E t \in Threads : RaceCloseConn(t)
    \/ \E t \in Threads : RaceCloseRecords(t)

SpecRace == Init /\ [][NextRace]_vars

\* validate_sql_query on every bounded text.
InitValidate ==
    /\ PoolInit
    /\ HandlerInit
    /\ ThreadInit
    /\ query \in Texts \cup {NotAString}
    /\ verdict = NoVerdict

NextValidate == Validate

SpecValidate == InitValidate /\ [][NextValidate]_vars

(***************************************************************************)
(* Properties.                                                             *)
(***************************************************************************)
Live == DOMAIN connections

\* execute_query on session s fails with "no data registered" in pool p,
\* whatever the engine would answer.
NotQueryable(p, s) ==
    \A engine_ok \in BOOLEAN :
        LET o == execute_outcome(p, s, engine_ok)
        IN ~o.success /\ o.error = NO_DATA_MSG

\* The place of key s in the dict order of last_access.
Position(s) == CHOOSE i \in 1 .. Len(la_order) : la_order[i] = s

\* C1: in every state reachable by register_dataframe, execute_query and
\* close_session calls, the number of live contexts (entries of connections)
\* is at most max_sessions.
C1_AtMostMaxSessions == Cardinality(Live) <= max_sessions

\* A registration has just evicted a session of a full pool, which is full again.
C1_Witness ==
    /\ call.op = "register_dataframe"
    /\ call.lru # {}
    /\ Cardinality(Live) = max_sessions

\* C2: a register_dataframe call for a session with no context, made while the
\* pool holds max_sessions contexts none of which is idle-expired, evicts
\* exactly one session, one whose last-access timestamp is smallest (the first
\* such in dict order); every other session keeps its context and its access
\* record, the new session is admitted, and execute_query on the evicted
\* session then fails with the no-data-registered error.
C2_EvictsLeastRecentlyUsed ==
    [][\A s \in Sessions, df \in Data :
         (/\ s \notin Live
          /\ Cardinality(Live) = max_sessions
          /\ \A x \in Live : ~Stale(x)
          /\ Upload(s, df))
         => \E e \in Live :
              /\ \A x \in Live :
                    \/ last_access[e] < last_access[x]
                    \/ last_access[e] = last_access[x] /\ Position(e) <= Position(x)
              /\ DOMAIN connections' = (Live \ {e}) \cup {s}
              /\ \A x \in Live \ {e} :
                    /\ connections'[x] = connections[x]
                    /\ last_access'[x] = last_access[x]
              /\ NotQueryable(ThePool', e)
              /\ ~NotQueryable(ThePool', s)
      ]_vars

\* The last call registered a new session in a full pool with no expired
\* session and evicted one, which is gone, while another session stays.
C2_Witness ==
    /\ call.op = "register_dataframe"
    /\ call.expired = {}
    /\ call.lru # {}
    /\ call.lru \cap Live = {}
    /\ call.sid \subseteq Live
    /\ Live \ call.sid # {}

\* C3 as stated: an execute_query on a session that has been idle for longer
\* than session_timeout returns the no-data-registered failure.
C3_StaleSessionNotQueryable ==
    (call.op = "execute_query" /\ call.stale)
        => (~call.success /\ call.error = NO_DATA_MSG)

\* C3, amended: a session idle for longer than session_timeout is no longer
\* queryable once a register_dataframe call for another session has run:
\* that call closes it, and execute_query on it then fails with the
\* no-data-registered error.
C3_StaleSessionClosedByRegister ==
    [][\A x \in Live : \A s \in Sessions \ {x}, df \in Data :
         (Stale(x) /\ call'.sid = {s} /\ Upload(s, df))
         => (x \notin DOMAIN connections' /\ NotQueryable(ThePool', x))
      ]_vars

\* The last call was a registration that closed an expired session other than
\* its own, and that session has no context.
C3_Witness ==
    /\ call.op = "register_dataframe"
    /\ call.expired \ call.sid # {}
    /\ (call.expired \ call.sid) \cap Live = {}

\* C4: every SQL text the /query handler passes to QueryExecutor.execute_query,
\* at the first attempt or at the refined one, is a text validate_sql_query
\* finds valid; DROP TABLE sales_data is never passed.
C4_OnlyValidatedSqlExecuted ==
    /\ \A q \in Range(log.executed) : validate_sql_query(q).valid
    /\ <<"DROP", "t">> \notin Range(log.executed)

\* The refined candidate was DROP TABLE: the request failed after one execution.
C4_Witness ==
    /\ pc = "failed"
    /\ Len(log.executed) = 1
    /\ Len(log.refine) = 1
    /\ log.rejected = <<[sql |-> <<"DROP", "t">>, verdict |-> Invalid("type", "DROP")]>>

\* C5: a text that parses into more than one statement gets the verdict
\* invalid with the multiple-statements reason, whatever the statement type,
\* the keywords and the function names in it.
C5_MultipleStatementsRejected ==
    (verdict # NoVerdict /\ Len(parse(query)) > 1)
        => verdict = Invalid("multiple", "None")

\* Two statements, the first of a type the validator rejects on its own, the
\* second with a denylisted keyword: the reason is the statement count.
C5_Witness ==
    /\ verdict = Invalid("multiple", "None")
    /\ query = <<"DROP", ";", "EXEC">>

\* The keyword token types of sqlparse: Keyword and its sub-types.
KeywordTypes == {"Keyword", "Keyword.DML", "Keyword.DDL", "Keyword.CTE"}

\* C6 as stated: a valid verdict is given only to one statement of type SELECT,
\* or one that starts with WITH; a statement of another kind, also of type
\* UNKNOWN, is rejected.
C6_ValidOnlySelectOrCte ==
    verdict.valid
        => /\ Len(parse(query)) = 1
           /\ \/ get_type(parse(query)[1]) = "SELECT"
              \/ /\ get_type(parse(query)[1]) = "UNKNOWN"
                 /\ top_tokens(parse(query)[1])[1] = "WITH"

\* The denylisted keywords among the keyword tokens of a text.
DeniedIn(q) ==
    {upper(q[i]) : i \in {j \in 1 .. Len(q) :
                            ttype(q[j]) \in KeywordTypes /\ upper(q[j]) \in DenyKeywords}}

\* C7 as stated: a single statement with a denylisted keyword among its
\* keyword tokens, anywhere and of any keyword sub-type, is invalid and the
\* reason names a denylisted keyword of the statement.
C7_DenylistedKeywordRejected ==
    (verdict # NoVerdict /\ Len(parse(query)) = 1 /\ DeniedIn(query) # {})
        => (~verdict.valid /\ verdict.detail \in DeniedIn(query))

\* The request is over.
Over == pc \in {"done", "failed"}

\* C8: refine_query is called if and only if the first execution failed, and
\* then once; execute_query is called at most twice, the second time only
\* after the first outcome is known and was a failure; the outcome of the
\* second attempt is the one returned, also when it failed.
C8_RefineOnceOnFailure ==
    /\ Len(log.refine) <= 1
    /\ Len(log.executed) <= 2
    /\ Len(log.outcomes) = Len(log.executed)
    /\ Len(log.refine) = 1 => (Len(log.outcomes) >= 1 /\ ~log.outcomes[1])
    /\ (Len(log.outcomes) >= 1 /\ ~log.outcomes[1] /\ pc # "refine") => Len(log.refine) = 1
    /\ Len(log.executed) = 2 => (Len(log.refine) = 1 /\ ~log.outcomes[1])
    /\ (Over /\ Len(log.outcomes) = 2 /\ ~log.outcomes[2])
          => (pc = "done" /\ response.status = "200" /\ ~response.success
              /\ response.error = ENGINE_ERROR_MSG)
    /\ (pc = "done" /\ Len(log.outcomes) = 2) => response.success = log.outcomes[2]

\* Both attempts failed and the second failure was returned.
C8_Witness ==
    /\ pc = "done"
    /\ Len(log.refine) = 1
    /\ log.outcomes = <<FALSE, FALSE>>
    /\ ~response.success

\* C9: the sql_query of the response and of the history row is the text
\* executed last: the original when the first execution succeeded, the refined
\* one when it failed, whether the refined query failed or not.
C9_ReportsLastExecutedSql ==
    pc = "done"
        => /\ log.executed # <<>>
           /\ response.sql_query = log.executed[Len(log.executed)]
           /\ Len(history) = 1
           /\ history[1].sql_query = log.executed[Len(log.executed)]
           /\ log.outcomes[1] => response.sql_query = log.executed[1]
           /\ ~log.outcomes[1] => response.sql_query = local.refined_sql

\* The refined text differs from the original, failed too, and is reported.
C9_Witness ==
    /\ pc = "done"
    /\ log.outcomes = <<FALSE, FALSE>>
    /\ log.executed[1] # log.executed[2]
    /\ response.sql_query = log.executed[2]
    /\ history[1].sql_query = log.executed[2]

\* C10 as stated: a candidate the validator rejects is not executed, the
\* request ends with a failure outcome whose error is the validator's reason,
\* and a rejected first candidate is followed by one refine_query call.
C10_RejectionIsExecutionFailure ==
    (Over /\ log.rejected # <<>>)
        => LET last == log.rejected[Len(log.rejected)]
           IN /\ last.sql \notin Range(log.executed)
              /\ response.status = "200"
              /\ ~response.success
              /\ response.error = error_msg(last.verdict)
              /\ Len(log.executed) = 0 => Len(log.refine) = 1

\* C11: execute_query on a session with no active context returns at once
\* (failure, no result, the no-data-registered error, elapsed time 0), does
\* not run the engine and raises nothing; the pool is left as it was: no
\* context and no access record is created for the session, and no other
\* session is touched.
C11_AbsentSessionFailsAtOnce ==
    [][\A s \in Sessions \ Live, engine_ok \in BOOLEAN :
         (call'.sid = {s} /\ Execute(s, engine_ok))
         => /\ ~call'.success
            /\ call'.result = {}
            /\ call'.error = NO_DATA_MSG
            /\ call'.elapsed = ZERO_MS
            /\ call'.engine_calls = 0
            /\ ~call'.raised
            /\ UNCHANGED <<connections, schema_cache, last_access, la_order>>
      ]_vars

\* A query of a session without context failed while other sessions are
\* active, and the session has neither context nor access record.
C11_Witness ==
    /\ call.op = "execute_query"
    /\ call.error = NO_DATA_MSG
    /\ call.sid \cap (Live \cup DOMAIN last_access) = {}
    /\ Live # {}

\* C12: when the engine raises an error for the query of an active session,
\* execute_query returns (failure, no result, the text of the error, the
\* elapsed time measured) and raises nothing; every execute_query call on an
\* active session runs the engine exactly once, whatever the engine answers.
C12_EngineErrorReturned ==
    [][\A s \in Live :
         /\ (call'.sid = {s} /\ Execute(s, FALSE))
               => /\ ~call'.success
                  /\ call'.result = {}
                  /\ call'.error = ENGINE_ERROR_MSG
                  /\ call'.elapsed = MEASURED_MS
                  /\ ~call'.raised
         /\ \A engine_ok \in BOOLEAN :
               (call'.sid = {s} /\ Execute(s, engine_ok)) => call'.engine_calls = 1
      ]_vars

\* The engine raised an error for the query of an active session.
C12_Witness ==
    /\ call.op = "execute_query"
    /\ call.sid \subseteq Live
    /\ call.error = ENGINE_ERROR_MSG
    /\ call.engine_calls = 1
    /\ ~call.raised

\* The DataFrame a query of table name sees in context ctx (none: the empty set).
Sees(ctx, name) == select_from(ctx, name).result

\* C13: when register_dataframe binds a name that is already bound in the
\* session, a query of that table sees exactly the DataFrame of the second
\* registration, never the first and never both; and it stays so: a query of
\* a bound table returns the DataFrame bound to it and changes no binding,
\* and a binding changes only by a registration under that name in that
\* session.
C13_ReRegisterReplaces ==
    [][/\ \A s \in Sessions : \A r \in Registrations(s) :
            (call'.sid = {s} /\ Register(s, r[1], r[2]))
            => /\ ~call'.raised
               /\ Sees(connections'[s], r[2]) = {r[1]}
       /\ \A s \in Live : \A name \in DOMAIN connections[s] :
            /\ (call'.sid = {s} /\ Select(s, name))
                  => /\ call'.success
                     /\ call'.result = {connections[s][name]}
                     /\ connections' = connections
            /\ (s \in DOMAIN connections' /\ name \in DOMAIN connections'[s]
                     /\ connections'[s][name] # connections[s][name])
                  => /\ call'.op = "register_dataframe"
                     /\ call'.sid = {s}
                     /\ Register(s, connections'[s][name], name)
      ]_vars

\* The last call registered df2 under a name bound to df1 in a session that
\* was not evicted, and a query of that table now sees df2 only.
C13_Witness ==
    /\ call.op = "register_dataframe"
    /\ call.expired = {} /\ call.lru = {}
    /\ \E s \in call.sid, name \in DOMAIN call.before :
          /\ call.before[name] = "df1"
          /\ Sees(connections[s], name) = {"df2"}

\* C14: a register_dataframe call for a session that has no context (never
\* registered, closed by close_session, or evicted as least recently used),
\* or whose context the call itself evicts as idle, leaves the session with a
\* new context that holds the table of that call and no other.
C14_FreshContextAfterClose ==
    [][\A s \in Sessions : \A r \in Registrations(s) :
         (call'.sid = {s} /\ (s \notin Live \/ Stale(s)) /\ Register(s, r[1], r[2]))
         => /\ ~call'.raised
            /\ s \in DOMAIN connections'
            /\ DOMAIN connections'[s] = {r[2]}
            /\ connections'[s][r[2]] = r[1]
      ]_vars

\* The last call registered a table in a session it first evicted as idle;
\* the table the session held before under another name is gone.
C14_Witness ==
    /\ call.op = "register_dataframe"
    /\ call.sid \subseteq call.expired
    /\ \E s \in call.sid :
          /\ s \in Live
          /\ DOMAIN call.before # {}
          /\ DOMAIN call.before \cap DOMAIN connections[s] = {}

\* C15: a register_dataframe call on session s changes no table of another
\* session that stays active, and a query under session x sees a table only
\* if it is bound in the context of x, whatever the other contexts hold.
C15_ContextsNotShared ==
    [][/\ \A s \in Sessions : \A r \in Registrations(s) :
            (call'.sid = {s} /\ Register(s, r[1], r[2]))
            => \A x \in (Live \cap DOMAIN connections') \ {s} :
                  connections'[x] = connections[x]
       /\ \A x \in Live, name \in TableNames :
            (call'.sid = {x} /\ name \notin DOMAIN connections[x] /\ Select(x, name))
            => /\ ~call'.success
               /\ call'.result = {}
               /\ connections' = connections
      ]_vars

\* A query under one session failed for a table that another active session
\* holds.
C15_Witness ==
    /\ call.op = "execute_query"
    /\ call.sid \subseteq Live
    /\ ~call.success
    /\ \E x \in Live \ call.sid, name \in TableNames :
          /\ name \in DOMAIN connections[x]
          /\ call.error = <<"Catalog Error: Table does not exist: ", name>>

\* C17: every register_dataframe call, and every execute_query call on a
\* session with an active context, sets the access record of the session to
\* the time of the call, and no session of the pool then has a later record;
\* the access record of a session that stays active never decreases.  The
\* clock read by datetime.now() does not go backwards.
C17_AccessRecordUpdated ==
    [][/\ \A s \in Sessions :
            (/\ call'.sid = {s}
             /\ \/ \E df \in Data : Upload(s, df)
                \/ s \in Live /\ \E engine_ok \in BOOLEAN : Execute(s, engine_ok))
            => /\ s \in DOMAIN last_access'
               /\ last_access'[s] = now
               /\ \A x \in DOMAIN last_access' : last_access'[x] <= last_access'[s]
       /\ \A x \in Live \cap DOMAIN connections' :
            /\ x \in DOMAIN last_access /\ x \in DOMAIN last_access'
            /\ last_access'[x] >= last_access[x]
      ]_vars

\* A query has just moved the access record of its session to the current
\* time, past the record of another active session.
C17_Witness ==
    /\ call.op = "execute_query"
    /\ call.sid \subseteq Live
    /\ \E s \in call.sid, x \in Live :
          /\ last_access[s] = now
          /\ last_access[x] < last_access[s]
          /\ Position(s) < Position(x)

\* The names of dangerous_functions found in the upper-cased text, as substrings.
FunctionsIn(q) ==
    {f \in Range(dangerous_functions) :
        \E i \in 1 .. Len(q) : f \in substrings(upper(q[i]))}

\* C18: a text whose upper-cased characters contain LOAD_EXTENSION, ATTACH,
\* DETACH or PRAGMA, also inside an identifier or a string literal, gets the
\* verdict invalid.
C18_FunctionSubstringRejected ==
    (verdict # NoVerdict /\ FunctionsIn(query) # {}) => ~verdict.valid

\* ATTACH inside the identifier of a SELECT that is otherwise accepted.
C18_Witness ==
    /\ query = <<"SELECT", "attachment">>
    /\ verdict = Invalid("function", "ATTACH")

\* The query of a text as SQL reads it: without a last ';' and the comment
\* after it.
Body(q) ==
    LET n == Len(q)
    IN IF n >= 2 /\ SubSeq(q, n - 1, n) = Trailer THEN SubSeq(q, 1, n - 2)
       ELSE IF n >= 1 /\ q[n] = ";" THEN SubSeq(q, 1, n - 1)
       ELSE q

\* One SELECT statement with no denylisted keyword and no denylisted function
\* name: SELECT and a list of names and literals.
SafeSelect(q) ==
    LET b == Body(q)
    IN /\ Len(b) >= 2
       /\ b[1] = "SELECT"
       /\ \A i \in 2 .. Len(b) : ttype(b[i]) \in {"Name", "Literal.String.Single"}
       /\ DeniedIn(q) = {}
       /\ FunctionsIn(q) = {}

\* C19 as stated: a text that is one SELECT statement with no denylisted
\* keyword and no denylisted function name gets the verdict valid.
C19_SafeSelectValid ==
    (verdict # NoVerdict /\ SafeSelect(query)) => verdict.valid

\* C20: validate_sql_query always returns a verdict and raises nothing: when
\* the parser raises, and when it yields no statement (the empty text), the
\* verdict is invalid with the reason of the parse failure.
C20_ValidateNeverRaises ==
    verdict # NoVerdict
        => /\ verdict.rule \in {"none", "parse", "multiple", "type", "keyword",
                                 "function", "exception"}
           /\ parse_raises(query) => verdict = Invalid("exception", "TypeError")
           /\ (~parse_raises(query) /\ parse(query) = <<>>)
                 => verdict = Invalid("parse", "None")
           /\ verdict.valid <=> verdict.rule = "none"

\* The parser raised and the verdict says so.
C20_Witness ==
    /\ query = NotAString
    /\ verdict = Invalid("exception", "TypeError")
    /\ error_msg(verdict) = <<"SQL validation error: ", "TypeError">>

\* C21: when generate_sql raises (blocked or empty answer, rejected text) the
\* request ends at once with an HTTP 500 that carries the generator's error,
\* not with a query outcome: no execute_query and no refine_query call is
\* made; when refine_query raises, the request ends the same way after the
\* one execution and the two generator calls already made; a request that
\* has failed calls nothing more.
C21_GeneratorFailureNotRetried ==
    [][/\ \A resp \in LLMResponses :
            (pc = "generate" /\ generate_sql(resp).raised /\ QueryGenerate(resp))
            => /\ pc' = "failed"
               /\ response'.status = "500"
               /\ response'.error = error_msg(generate_sql(resp).detail)
               /\ log'.generate = 1
               /\ log'.executed = <<>>
               /\ log'.refine = <<>>
       /\ \A resp \in LLMResponses :
            (pc = "refine" /\ refine_query(resp).raised /\ QueryRefine(resp))
            => /\ pc' = "failed"
               /\ response'.status = "500"
               /\ response'.error = error_msg(refine_query(resp).detail)
               /\ log'.generate = 1
               /\ Len(log'.executed) = 1
               /\ Len(log'.refine) = 1
       /\ pc = "failed" => (pc' = "idle" \/ (pc' = pc /\ log' = log))
       /\ response'.status = "500" => ~response'.success
      ]_vars

\* The answer to the refinement was blocked: the request failed with the
\* generator's error after one execution and one refinement.
C21_Witness ==
    /\ pc = "failed"
    /\ response.status = "500"
    /\ response.error = error_msg(GenerationError)
    /\ Len(log.executed) = 1
    /\ Len(log.refine) = 1

\* C22 as stated: every request that reached the generator ends with exactly
\* one history record, which holds the final SQL text, the status and the
\* error text, whether it ended in success, in an execution failure, in a
\* validation rejection or in a generation error.
C22_OneHistoryRecord ==
    (Over /\ log.generate >= 1)
        => /\ Len(history) = 1
           /\ history[1].status \in {"success", "error"}
           /\ history[1].status = "error" => history[1].error_msg # NONE

\* C23 as stated: there is one table name such that every context of the
\* pool holds at most one table, registered under that name.
C23_OneFixedTableName ==
    \E name \in TableNames : \A s \in Live : DOMAIN connections[s] \subseteq {name}

\* C24: after close_session(s) the session has no context, no access record
\* and no cached schema, and a query of it fails with the no-data error, as
\* after an eviction; the contexts, tables and access records of all other
\* sessions are as before; for a session with no context the call changes
\* nothing; the call raises nothing.
C24_CloseSessionFrame ==
    [][\A s \in Sessions :
         (call'.sid = {s} /\ call'.op = "close_session" /\ Delete(s))
         => /\ ~call'.raised
            /\ s \notin DOMAIN connections'
            /\ s \notin DOMAIN last_access'
            /\ s \notin Range(la_order')
            /\ s \notin schema_cache'
            /\ NotQueryable(ThePool', s)
            /\ DOMAIN connections' = Live \ {s}
            /\ \A x \in Live \ {s} : connections'[x] = connections[x]
            /\ DOMAIN last_access' = DOMAIN last_access \ {s}
            /\ \A x \in DOMAIN last_access \ {s} : last_access'[x] = last_access[x]
            /\ la_order' = SeqDel(la_order, s)
            /\ s \notin Live => UNCHANGED <<connections, schema_cache, last_access, la_order>>
      ]_vars

\* A session has just been closed while another session, which holds a
\* table, stays.
C24_Witness ==
    /\ call.op = "close_session"
    /\ call.sid \cap (Live \cup DOMAIN last_access) = {}
    /\ \E x \in Live : DOMAIN connections[x] # {} /\ x \in DOMAIN last_access

\* C25: in every state reached by register_dataframe, execute_query and
\* close_session calls made one after the other, the sessions with an access
\* record are the sessions with a context.
C25_AccessRecordsMatchContexts ==
    /\ DOMAIN last_access = DOMAIN connections
    /\ Range(la_order) = DOMAIN last_access

\* An idle session has just been evicted by a registration: its record went
\* with its context, and the sessions that stay have both.
C25_Witness ==
    /\ call.op = "register_dataframe"
    /\ call.expired # {}
    /\ call.expired \cap (DOMAIN last_access \cup Live) \subseteq call.sid
    /\ Cardinality(DOMAIN last_access) >= 2

\* C26: clear_all_sessions leaves no context and no access record; in the
\* registrations that follow there is never an access record without a
\* context for the LRU step to pick, and the pool never holds more than
\* max_sessions contexts.
C26_ClearAllResetsPool ==
    /\ call.op = "clear_all_sessions" => DOMAIN connections = {} /\ DOMAIN last_access = {}
    /\ DOMAIN last_access \subseteq DOMAIN connections
    /\ Cardinality(DOMAIN connections) <= max_sessions

\* C27: every register_dataframe call first closes exactly the sessions
\* idle for more than session_timeout, whatever the size of the pool and
\* whether or not the session registered has a context; a session idle
\* exactly session_timeout is not closed by this step; when the session
\* registered is itself among the closed ones its context afterwards holds
\* the newly registered table and nothing else.
C27_CleanupOnEveryRegister ==
    [][\A s \in Sessions : \A r \in IdleRegistrations(s) :
         (call'.sid = {s} /\ call'.op = "register_dataframe" /\ Register(s, r[1], r[2]))
         => /\ call'.expired = {x \in DOMAIN last_access :
                                   now - last_access[x] > session_timeout}
            /\ \A x \in call'.expired \ {s} :
                  x \notin DOMAIN connections' /\ x \notin DOMAIN last_access'
            /\ \A x \in DOMAIN last_access :
                  now - last_access[x] = session_timeout
                  => x \notin call'.expired
                     /\ (x \in DOMAIN connections' \/ x \in call'.lru)
            /\ s \in call'.expired
               => /\ DOMAIN connections'[s] = {r[2]}
                  /\ connections'[s][r[2]] = r[1]
                  /\ last_access'[s] = now
      ]_vars

\* A registration has closed its own session, which had been idle too long
\* and held another table, while a session idle exactly session_timeout at
\* that time is still in the pool.
C27_Witness ==
    /\ call.op = "register_dataframe"
    /\ call.sid # {}
    /\ call.sid \subseteq call.expired
    /\ \A s \in call.sid :
          /\ s \in DOMAIN connections
          /\ DOMAIN call.before \ DOMAIN connections[s] # {}
          /\ last_access[s] >= session_timeout
          /\ \E x \in DOMAIN connections \ {s} :
                last_access[s] - last_access[x] = session_timeout

\* C28: when the calls of all threads have returned, no session has an
\* access record without a context, and no execute_query call has ended by
\* raising, however its statements interleaved with close_session or with
\* the eviction of its session.
C28_ExecuteSafeUnderClose ==
    (\A t \in Threads : thread[t].pc = "idle")
    => /\ DOMAIN last_access \subseteq DOMAIN connections
       /\ \A t \in Threads : ~thread[t].raised

\* C29: a register_dataframe call for a session that has a context and is
\* not idle-expired runs no LRU step and leaves every session that is not
\* idle-expired in the pool with its context and access record, also when
\* the pool is full; when a call does run the LRU step, the session
\* registered had no context or an expired one, it is not the session
\* picked, and it has a context afterwards.
C29_ReRegisterEvictsNothing ==
    [][\A s \in Sessions, df \in Data :
         (call'.sid = {s} /\ call'.op = "register_dataframe" /\ Upload(s, df))
         => /\ (s \in Live /\ ~Stale(s))
               => /\ call'.lru = {}
                  /\ \A x \in Live :
                        ~Stale(x)
                        => /\ x \in DOMAIN connections'
                           /\ connections'[x] = connections[x]
                           /\ x \in DOMAIN last_access'
                           /\ x # s => last_access'[x] = last_access[x]
                  /\ DOMAIN connections' = {x \in Live : ~Stale(x)}
            /\ call'.lru # {}
               => /\ s \notin Live \/ Stale(s)
                  /\ s \notin call'.lru
                  /\ call'.lru \subseteq Live
                  /\ call'.lru \cap DOMAIN connections' = {}
                  /\ s \in DOMAIN connections'
      ]_vars

\* A session that was in a full pool and not expired has just been
\* registered again: nothing was evicted and the pool is still full.
C29_Witness ==
    /\ call.op = "register_dataframe"
    /\ call.before # EmptyContext
    /\ ~call.stale
    /\ call.lru = {}
    /\ call.expired = {}
    /\ call.sid \subseteq Live
    /\ Cardinality(Live) = max_sessions
    /\ now > 0

\* C30: within one /query request that no other request interleaves with,
\* the session has a context with the table of line 292 from the
\* registration until the last execute_query, and neither the first nor the
\* second execute_query call returns the no-data-registered failure, also
\* when the session had no context when the request began.
C30_NoDataNeverInsideRequest ==
    /\ pc \in {"generate", "execute", "refine", "execute_refined"}
       => \A s \in local.session_id :
             s \in Live /\ "sales_data" \in DOMAIN connections[s]
    /\ pc \in {"refine", "execute_refined", "respond", "done"}
       => /\ local.error # NO_DATA_MSG
          /\ call.op = "execute_query" => call.error # NO_DATA_MSG
    /\ \A i \in 1 .. Len(log.refine) : log.refine[i].error_message # NO_DATA_MSG
    /\ response.error # NO_DATA_MSG
    /\ \A i \in 1 .. Len(history) : history[i].error_msg # NO_DATA_MSG

\* A request for a session that had no context when it began, in a pool
\* that is full, has made both execute_query calls; both reached the engine.
C30_Witness ==
    /\ pc = "done"
    /\ log.created
    /\ Len(log.executed) = 2
    /\ call.op = "execute_query"
    /\ call.engine_calls = 1
    /\ response.error = ENGINE_ERROR_MSG
    /\ Cardinality(Live) = max_sessions

\* C16 as stated: at most one connection is open per session id at any time,
\* also while register_dataframe calls of different threads interleave: two
\* registrations of the same absent session never both create a context, and
\* no context is overwritten in the pool without being closed.
C16_OneContextPerHandle ==
    \A s \in Sessions : opened[s] <= 1

=============================================================================
